---- MODULE Spec2Model ----
(***************************************************************************)
(* Chunking and indexing pipeline of the LangChain tutorial repository.    *)
(*                                                                         *)
(* Text is a sequence of characters.  Three characters are told apart: a   *)
(* letter, a blank and a newline; the separator "\n\n" is two newlines.    *)
(* chunk_documents builds CharacterTextSplitter(separator="\n\n",          *)
(* chunk_size=500, chunk_overlap=50, length_function=len) and calls its    *)
(* split_documents; the operators below follow that call step by step      *)
(* (split on the separator, drop empty pieces, merge, join, strip).  The   *)
(* two sizes are scaled down (chunk_size, chunk_overlap below) so that     *)
(* texts longer than a chunk stay small.                                   *)
(***************************************************************************)
EXTENDS Integers, Sequences, FiniteSets, TLC

\* ------------------------------------------------------------- bounds
\* scaled stand-in for chunk_size=500 (chunk.py:23)
chunk_size == 6
\* scaled stand-in for chunk_overlap=50 (chunk.py:24)
chunk_overlap == 2
\* longest document content, in characters
MaxLen == 8
\* longest content of the documents of a two-document list
MaxLen2 == 2
\* calls of chunk_documents made on one document list
MaxCalls == 2
\* most raw documents in SYNTHETIC_DOCUMENTS
MaxRaw == 2
\* longest content of a raw document
MaxRawLen == 1
\* documents in the index that main() saves
MaxStore == 4
\* similarity scores the index tells apart
MaxScore == 2
\* lines typed into an interactive loop
MaxLines == 3

\* ------------------------------------------------------------- text
LETTER == "a"
SP == "_"
NL == "n"
Alphabet == {LETTER, SP, NL}
Whitespace == {SP, NL}

\* separator="\n\n"
separator == <<NL, NL>>

None == "None"

RECURSIVE Texts(_)
\* all texts of at most n characters
Texts(n) ==
  IF n = 0 THEN {<<>>}
  ELSE LET shorter == Texts(n - 1)
       IN shorter \cup {Append(t, c) : t \in {s \in shorter : Len(s) = n - 1}, c \in Alphabet}

len(s) == Len(s)

RECURSIVE lstrip(_)
lstrip(s) == IF s # <<>> /\ Head(s) \in Whitespace THEN lstrip(Tail(s)) ELSE s

RECURSIVE rstrip(_)
rstrip(s) ==
  IF s # <<>> /\ s[Len(s)] \in Whitespace THEN rstrip(SubSeq(s, 1, Len(s) - 1)) ELSE s

\* str.strip()
strip(s) == rstrip(lstrip(s))

\* s startswith p
startswith(s, p) == Len(p) <= Len(s) /\ SubSeq(s, 1, Len(p)) = p

\* s[-n:]
last_chars(s, n) == IF n = 0 \/ Len(s) <= n THEN s ELSE SubSeq(s, Len(s) - n + 1, Len(s))

RECURSIVE re_split(_, _, _)
\* re.split(re.escape(sep), text): left to right, pieces between the
\* non-overlapping occurrences of sep, empty pieces included
re_split(text, sep, piece) ==
  IF text = <<>> THEN <<piece>>
  ELSE IF startswith(text, sep)
       THEN <<piece>> \o re_split(SubSeq(text, Len(sep) + 1, Len(text)), sep, <<>>)
       ELSE re_split(Tail(text), sep, Append(piece, Head(text)))

\* _split_text_with_regex(text, separator, keep_separator=False):
\* re.split, then [s for s in splits if s != ""]
split_text_with_regex(text, sep) ==
  SelectSeq(re_split(text, sep, <<>>), LAMBDA s : s # <<>>)

RECURSIVE join(_, _)
\* separator.join(docs)
join(sep, docs) ==
  IF docs = <<>> THEN <<>>
  ELSE IF Len(docs) = 1 THEN docs[1]
       ELSE docs[1] \o sep \o join(sep, Tail(docs))

\* _join_docs: join, strip (strip_whitespace=True), None when empty
join_docs(docs, sep) ==
  LET text == strip(join(sep, docs))
  IN IF text = <<>> THEN None ELSE text

\* ------------------------------------------------------------- splitter
\* one piece of _merge_splits' docs list: the joined text, and (history)
\* the current_doc it was joined from and the index of its first split
Piece(text, current_doc, at) == [page_content |-> text, segs |-> current_doc, at |-> at]

\* docs.append(doc) unless _join_docs gave None
append_doc(docs, current_doc, at, sep) ==
  LET doc == join_docs(current_doc, sep)
  IN IF doc # None THEN Append(docs, Piece(doc, current_doc, at)) ELSE docs

\* too_long without the separator that the join puts before the new split
too_long_no_separator(total, _len, current_doc, sep) == total + _len > chunk_size

\* the test of _merge_splits on adding a split of length _len
too_long(total, _len, current_doc, sep) ==
  total + _len + (IF Len(current_doc) > 0 THEN len(sep) ELSE 0) > chunk_size

RECURSIVE pop_loop(_, _, _, _, _)
\* the while loop of _merge_splits: drop leading splits of current_doc until
\* what is kept is at most chunk_overlap long and the new split fits
pop_loop(current_doc, total, _len, at, sep) ==
  IF total > chunk_overlap \/ (too_long(total, _len, current_doc, sep) /\ total > 0)
  THEN pop_loop(Tail(current_doc),
                total - (len(current_doc[1]) + (IF Len(current_doc) > 1 THEN len(sep) ELSE 0)),
                _len, at + 1, sep)
  ELSE [current_doc |-> current_doc, total |-> total, at |-> at]

\* one iteration of "for d in splits" in _merge_splits
merge_step(st, d, i, sep) ==
  LET emit == too_long(st.total, len(d), st.current_doc, sep) /\ Len(st.current_doc) > 0
      docs == IF emit THEN append_doc(st.docs, st.current_doc, st.at, sep) ELSE st.docs
      kept == IF emit THEN pop_loop(st.current_doc, st.total, len(d), st.at, sep)
              ELSE [current_doc |-> st.current_doc, total |-> st.total, at |-> st.at]
      current_doc == Append(kept.current_doc, d)
  IN [docs |-> docs,
      current_doc |-> current_doc,
      total |-> kept.total + len(d) + (IF Len(current_doc) > 1 THEN len(sep) ELSE 0),
      at |-> IF kept.current_doc = <<>> THEN i ELSE kept.at]

RECURSIVE merge_loop(_, _, _, _)
merge_loop(splits, i, st, sep) ==
  IF i > Len(splits) THEN append_doc(st.docs, st.current_doc, st.at, sep)
  ELSE merge_loop(splits, i + 1, merge_step(st, splits[i], i, sep), sep)

\* TextSplitter._merge_splits(splits, separator)
merge_splits(splits, sep) ==
  merge_loop(splits, 1, [docs |-> <<>>, current_doc |-> <<>>, total |-> 0, at |-> 1], sep)

\* CharacterTextSplitter.split_text(text)
split_text(text) == merge_splits(split_text_with_regex(text, separator), separator)

\* ------------------------------------------------------------- documents
\* metadata={"title", "category", "section"} (main.py:39-43)
Meta1 == [title |-> "T1", category |-> "basics", section |-> "S1"]
Meta2 == [title |-> "T2", category |-> "advanced", section |-> "S2"]
Metas == {Meta1, Meta2}

\* Document(page_content, metadata)
Document(page_content, metadata) == [page_content |-> page_content, metadata |-> metadata]

Docs(n) == {Document(t, m) : t \in Texts(n), m \in Metas}

\* the document lists chunk_documents is applied to: none, one document of
\* any content, two short documents, a document of any content before a
\* short one
DocLists ==
  {<<>>}
    \cup {<<Document(t, Meta1)>> : t \in Texts(MaxLen)}
    \cup {<<d, e>> : d \in Docs(MaxLen2), e \in Docs(MaxLen2)}
    \cup {<<Document(t, Meta1), Document(<<LETTER>>, Meta2)>> : t \in Texts(MaxLen)}

\* a chunk: Document(page_content=chunk, metadata=copy.deepcopy(metadatas[i]));
\* doc, segs and at are history: the index of the source document, the splits
\* the text was joined from and the index of the first of them
Chunk(piece, metadata, i) ==
  [page_content |-> piece.page_content, metadata |-> metadata,
   doc |-> i, segs |-> piece.segs, at |-> piece.at]

\* chunks_of with every chunk given the metadata of the first document
chunks_of_first_metadata(documents, i) ==
  LET pieces == split_text(documents[i].page_content)
  IN [k \in 1..Len(pieces) |-> Chunk(pieces[k], documents[1].metadata, i)]

\* the chunks of document i: "for chunk in self.split_text(text)"
chunks_of(documents, i) ==
  LET pieces == split_text(documents[i].page_content)
  IN [k \in 1..Len(pieces) |-> Chunk(pieces[k], documents[i].metadata, i)]

RECURSIVE create_documents(_, _)
\* TextSplitter.create_documents: "for i, text in enumerate(texts)"
create_documents(documents, i) ==
  IF i > Len(documents) THEN <<>>
  ELSE chunks_of(documents, i) \o create_documents(documents, i + 1)

\* text_splitter.split_documents(documents)
split_documents(documents) == create_documents(documents, 1)

\* documents_after of a splitter that takes the documents off the caller's list
documents_after_consumed(documents) == <<>>

\* what split_documents leaves in the caller's list: it reads page_content
\* and metadata and writes neither
documents_after(documents) == documents

Returned(value) == [ret |-> value, exc |-> None]
Raised(e) == [ret |-> None, exc |-> e]

\* chunk_documents of simple-rag-agent/components/chunk.py
chunk_documents_rag(documents) == Returned(split_documents(documents))

\* chunk_documents of project-1/components/chunk.py: the statistics divide by
\* len(chunk_sizes) and the sample reads chunks[0] before the return
chunk_documents(documents) ==
  LET chunks == split_documents(documents)
      chunk_sizes == [k \in 1..Len(chunks) |-> len(chunks[k].page_content)]
  IN IF Len(chunk_sizes) = 0 THEN Raised("ZeroDivisionError")
     ELSE Returned(chunks)

Variants == {"project-1", "simple-rag-agent"}

call_chunk_documents(variant, documents) ==
  IF variant = "project-1" THEN chunk_documents(documents) ELSE chunk_documents_rag(documents)

\* ------------------------------------------------------------- pipeline
\* a raw document of SYNTHETIC_DOCUMENTS: title, content, category, section
RawDocs ==
  {[title |-> m.title, content |-> t, category |-> m.category, section |-> m.section] :
     t \in Texts(MaxRawLen), m \in Metas}

\* the lists get_synthetic_documents may return
RawLists == UNION {[1..n -> RawDocs] : n \in 0..MaxRaw}

\* what an operation gave: a return value or a raised exception, and what it
\* printed of the lines the claims read
Outcome(ret, e, printed) == [ret |-> ret, exc |-> e, printed |-> printed]

\* load_documents that keeps the raw content as it is, without strip()
load_documents_unstripped(raw_documents) ==
  LET docs == [i \in 1..Len(raw_documents) |->
                 Document(raw_documents[i].content,
                          [title |-> raw_documents[i].title,
                           category |-> raw_documents[i].category,
                           section |-> raw_documents[i].section])]
  IN IF Len(docs) = 0 THEN Outcome(None, "ZeroDivisionError", <<>>)
     ELSE Outcome(docs, None, <<>>)

\* load_documents(): one Document per raw document, content stripped; the
\* report divides by len(documents)
load_documents(raw_documents) ==
  LET docs == [i \in 1..Len(raw_documents) |->
                 Document(strip(raw_documents[i].content),
                          [title |-> raw_documents[i].title,
                           category |-> raw_documents[i].category,
                           section |-> raw_documents[i].section])]
  IN IF Len(docs) = 0 THEN Outcome(None, "ZeroDivisionError", <<>>)
     ELSE Outcome(docs, None, <<>>)

\* how the embedding service and the index library answer create_vector_store
EmbedAnswers == {"ok", "init_fails", "build_fails"}

\* FAISS.from_documents(chunks, embeddings): the index holds the chunks
FAISS(chunks) == [docs |-> chunks]

\* create_vector_store whose except prints the error and does not raise it again
create_vector_store_swallowing(chunks, answer) ==
  CASE answer = "init_fails" -> Outcome(None, "EmbeddingsError", <<>>)
    [] answer = "build_fails" -> Outcome(None, None, <<"Error creating vector store">>)
    [] OTHER -> Outcome(FAISS(chunks), None, <<"Vector store created successfully">>)

\* create_vector_store(chunks): the embeddings object is built outside the
\* try; a failure of FAISS.from_documents is printed and raised again
create_vector_store(chunks, answer) ==
  CASE answer = "init_fails" -> Outcome(None, "EmbeddingsError", <<>>)
    [] answer = "build_fails" ->
         Outcome(None, "IndexBuildError", <<"Error creating vector store">>)
    [] OTHER -> Outcome(FAISS(chunks), None, <<"Vector store created successfully">>)

\* how the index library answers save_local and similarity_search
CallAnswers == {"ok", "fails"}

\* save_vector_store(vector_store): vector_store.save_local(path)
save_vector_store(vector_store, answer) ==
  IF answer = "fails" THEN Outcome(None, "SaveError", <<>>)
  ELSE Outcome(None, None, <<"Vector store saved">>)

\* k of verify_indexing's similarity_search
verify_k == 3

Min(a, b) == IF a < b THEN a ELSE b

\* the answers similarity_search(query, k) may give on an index of n
\* documents: Min(k, n) of them, each once, in the index's own order
TopK(n, k) ==
  {r \in [1..Min(k, n) -> 1..n] : \A x, y \in 1..Min(k, n) : x # y => r[x] # r[y]}

\* vector_store.similarity_search(query, k), given the index's choice
similarity_search(vector_store, hits) ==
  [x \in 1..Len(hits) |-> vector_store.docs[hits[x]]]

\* verify_indexing(vector_store): one similarity_search, its results printed
verify_indexing(vector_store, answer) ==
  IF answer = "fails" THEN Outcome(None, "SearchError", <<>>)
  ELSE Outcome(None, None, <<"Found results">>)

Stages == <<"load", "chunk", "embed", "save", "verify">>

\* next_stage with verify_indexing called before save_vector_store
next_stage_verify_first(stage) ==
  CASE stage = "load" -> "chunk"
    [] stage = "chunk" -> "embed"
    [] stage = "embed" -> "verify"
    [] stage = "verify" -> "save"
    [] stage = "save" -> "summary"

\* main(): the statement that follows each call
next_stage(stage) ==
  CASE stage = "load" -> "chunk"
    [] stage = "chunk" -> "embed"
    [] stage = "embed" -> "save"
    [] stage = "save" -> "verify"
    [] stage = "verify" -> "summary"

\* main() has no try: an exception of a call leaves main, a return goes on
main_after(stage, o) ==
  IF o.exc # None THEN [pc |-> "raised", exc |-> o.exc]
  ELSE [pc |-> next_stage(stage), exc |-> None]

\* ------------------------------------------------------------- retrieval
\* Python values that may be None: None is <<>>, any other value v is <<v>>
Nothing == <<>>
Some(v) == <<v>>

\* a text of n letters
letters(n) == [i \in 1..n |-> LETTER]

\* the chunks main() indexed; the second and the third are equal
Corpus == [i \in 1..MaxStore |-> Document(letters((i \div 2) + 1), Meta1)]

\* an index left in a vector_store folder by an earlier run
StaleIndex == FAISS(<<Document(letters(1), Meta2)>>)

\* how similar the embedding service finds the question and a document
Worlds == [1..((MaxStore \div 2) + 1) -> 1..MaxScore]
score(sim, doc) == sim[Len(doc.page_content)]

RECURSIVE rank(_, _, _, _)
\* the index's search: the k nearest documents, nearest first (equal scores
\* in index order), fewer when the index holds fewer
rank(sim, vs, left, k) ==
  IF k = 0 \/ left = {} THEN <<>>
  ELSE LET best == CHOOSE i \in left : \A j \in left :
                     \/ score(sim, vs.docs[i]) > score(sim, vs.docs[j])
                     \/ score(sim, vs.docs[i]) = score(sim, vs.docs[j]) /\ i <= j
       IN <<best>> \o rank(sim, vs, left \ {best}, k - 1)

\* vector_store.similarity_search(query, k=k) on a loaded index
faiss_search(sim, vs, query, k) ==
  similarity_search(vs, rank(sim, vs, 1..Len(vs.docs), k))

\* directories a script is run from, and the directory above each
Dirs == {"project-1", "project-1/tests"}
AllDirs == Dirs \cup {"repo"}
parent(dir) == IF dir = "project-1/tests" THEN "project-1" ELSE "repo"

\* the directory in which a relative path "./vector_store" or
\* "../vector_store" names the folder vector_store
resolve(cwd, path) == IF path = "../vector_store" THEN parent(cwd) ELSE cwd

\* what the folder vector_store of a directory holds
Folder(state, index) == [state |-> state, index |-> index]
Absent == Folder("absent", FAISS(<<>>))

\* path="./vector_store" of save_vector_store
save_path == "./vector_store"

\* vector_store.save_local(path): the folder holds the index; a failed
\* save leaves the folder as it was or unreadable
save_local(files, cwd, path, vs, answer) ==
  IF answer = "ok" THEN {[files EXCEPT ![resolve(cwd, path)] = Folder("index", vs)]}
  ELSE {files, [files EXCEPT ![resolve(cwd, path)] = Folder("corrupt", FAISS(<<>>))]}

\* load_vector_store with path = "../vector_store", as test-2.py has it
load_vector_store_parent(files, cwd, emb, answer) ==
  LET folder == files[resolve(cwd, "../vector_store")]
  IN CASE emb = "fails" -> Outcome(Nothing, "EmbeddingsError", <<>>)
       [] emb # "fails" /\ folder.state = "absent" ->
            Outcome(Nothing, None, <<"Vector store not found">>)
       [] emb # "fails" /\ folder.state # "absent"
            /\ (answer = "fails" \/ folder.state = "corrupt") ->
            Outcome(Nothing, None, <<"Error loading vector store">>)
       [] OTHER -> Outcome(Some(folder.index), None, <<"Vector store loaded successfully">>)

\* load_vector_store() of tests/test.py: None when the path is absent or
\* FAISS.load_local raises; the embeddings object is built outside the try
load_vector_store(files, cwd, emb, answer) ==
  LET folder == files[resolve(cwd, "./vector_store")]
  IN CASE emb = "fails" -> Outcome(Nothing, "EmbeddingsError", <<>>)
       [] emb # "fails" /\ folder.state = "absent" ->
            Outcome(Nothing, None, <<"Vector store not found">>)
       [] emb # "fails" /\ folder.state # "absent"
            /\ (answer = "fails" \/ folder.state = "corrupt") ->
            Outcome(Nothing, None, <<"Error loading vector store">>)
       [] OTHER -> Outcome(Some(folder.index), None, <<"Vector store loaded successfully">>)

RECURSIVE reversed(_)
reversed(xs) == IF xs = <<>> THEN <<>> ELSE Append(reversed(Tail(xs)), Head(xs))

\* retrieve_and_display that returns the results last first
retrieve_and_display_reversed(sim, vs, query, k) == reversed(faiss_search(sim, vs, query, k))

\* retrieve_and_display(vector_store, query, k): searches, prints each
\* result, returns results
retrieve_and_display(sim, vs, query, k) ==
  LET results == faiss_search(sim, vs, query, k)
  IN results

\* a query text that is one of the scripts' literals
Literal(text) == <<text>>

\* the queries of run_query_type_tests, in call order, each with k=2
type_tests ==
  <<Literal("What is RAG?"), Literal("Explain embeddings"), Literal("How do chains work?"),
    Literal("How do I build a RAG application?"), Literal("How do I use embeddings?"),
    Literal("How does semantic search work?"),
    Literal("Tell me about LangChain"), Literal("What should I know?"),
    Literal("Explain everything"),
    Literal("How do I cook pasta?"), Literal("What's the weather today?"),
    Literal("Tell me about space exploration")>>

\* k of run_query_type_tests' calls
tests_k == 2
\* k of interactive_mode's call
interactive_k == 3

\* str.lower() of one character the model types
lower_char(c) ==
  CASE c = "Q" -> "q" [] c = "U" -> "u" [] c = "I" -> "i" [] c = "T" -> "t" [] OTHER -> c
\* str.lower() that leaves capitals as they are
lower_kept(s) == [i \in 1..Len(s) |-> s[i]]

\* str.lower()
lower(s) == [i \in 1..Len(s) |-> lower_char(s[i])]

quit == <<"q", "u", "i", "t">>

\* the lines typed at a prompt of an interactive loop
Lines ==
  {<<"Q", "u", "I", "T">>, <<SP, "q", "u", "i", "t", NL>>,
   <<SP>>, <<SP, LETTER, SP>>, <<"q", "u", "i", "t", "s">>}

\* the lines typed at the menu prompt
Choices == {<<"1">>, <<"2">>, <<SP, "2", SP>>, <<"3">>, <<"4">>, <<>>}

\* input() when the input has ended
EOF == <<"EOF">>

\* ------------------------------------------------------------- state
VARIABLES
  given,        \* history: the document list as passed to chunk_documents
  documents,    \* the caller's document list
  results,      \* what each call of chunk_documents gave, in call order
  raw,          \* SYNTHETIC_DOCUMENTS
  pc,           \* where main() is
  m_documents,  \* main's documents
  m_chunks,     \* main's chunks
  vector_store, \* main's vector_store
  disk,         \* what ./vector_store holds
  search,       \* the last similarity_search answer
  exc,          \* the exception that left main()
  trace,        \* history: the stages called, with argument and result
  out,          \* the printed lines the claims read
  world,        \* the similarity of the question to the documents
  fs,           \* what the folder vector_store of each directory holds
  run,          \* the script run after main(), and the two working directories
  comps,        \* the driver's vector_store, retriever, llm and rag_chain
  todo,         \* the questions a batch mode has still to ask
  typed,        \* history: the lines read by the interactive loop
  calls         \* history: the driver's calls, prompts and returns, in order

chunker == <<given, documents, results>>
pipeline == <<raw, pc, m_documents, m_chunks, vector_store, disk, search, exc, trace, out>>
rag == <<world, fs, run, comps, todo, typed, calls>>
vars == <<given, documents, results, raw, pc, m_documents, m_chunks, vector_store, disk,
          search, exc, trace, out, world, fs, run, comps, todo, typed, calls>>

\* the driver's locals before anything is assigned
NoComps == [vector_store |-> Nothing, retriever |-> Nothing, llm |-> Nothing, rag_chain |-> Nothing]

RagIdle ==
  /\ world = <<>>
  /\ fs = <<>>
  /\ run = <<>>
  /\ comps = NoComps
  /\ todo = <<>>
  /\ typed = <<>>
  /\ calls = <<>>

PipelineIdle ==
  /\ raw = <<>>
  /\ pc = "idle"
  /\ m_documents = None
  /\ m_chunks = None
  /\ vector_store = None
  /\ disk = None
  /\ search = None
  /\ exc = None
  /\ trace = <<>>
  /\ out = <<>>

\* ------------------------------------------------------------- chunker calls
InitChunk ==
  /\ given \in DocLists
  /\ documents = given
  /\ results = <<>>
  /\ PipelineIdle
  /\ RagIdle

\* one call chunk_documents(documents) of either variant
CallChunk(variant) ==
  /\ Len(results) < MaxCalls
  /\ results # <<>> => results[1].variant = variant
  /\ results' = Append(results, [variant |-> variant] @@ call_chunk_documents(variant, documents))
  /\ documents' = documents_after(documents)
  /\ UNCHANGED <<given, pipeline, rag>>

CallProject1 == CallChunk("project-1")
CallRag == CallChunk("simple-rag-agent")

NextChunk == CallProject1 \/ CallRag

SpecChunk == InitChunk /\ [][NextChunk]_vars

\* ------------------------------------------------------------- main()
Init ==
  /\ given = <<>>
  /\ documents = <<>>
  /\ results = <<>>
  /\ raw \in RawLists
  /\ pc = "load"
  /\ m_documents = None
  /\ m_chunks = None
  /\ vector_store = None
  /\ disk \in {None, "stale"}
  /\ search = None
  /\ exc = None
  /\ trace = <<>>
  /\ out = <<>>
  /\ RagIdle

\* one entry of trace: the stage, what it was passed, what it returned and
\* whether its work failed
Called(stage, arg, ret, failed) == [stage |-> stage, arg |-> arg, ret |-> ret, failed |-> failed]

\* documents = load_documents()
Load ==
  /\ pc = "load"
  /\ LET o == load_documents(raw)
         after == main_after("load", o)
     IN /\ m_documents' = o.ret
        /\ pc' = after.pc
        /\ exc' = after.exc
        /\ trace' = Append(trace, Called("load", None, o.ret, o.exc # None))
        /\ out' = out \o o.printed
  /\ UNCHANGED <<chunker, rag, raw, m_chunks, vector_store, disk, search>>

\* chunks = chunk.chunk_documents(documents)
Chunk_ ==
  /\ pc = "chunk"
  /\ LET o == chunk_documents(m_documents)
         after == main_after("chunk", o)
     IN /\ m_chunks' = o.ret
        /\ pc' = after.pc
        /\ exc' = after.exc
        /\ trace' = Append(trace, Called("chunk", m_documents, o.ret, o.exc # None))
  /\ UNCHANGED <<chunker, rag, raw, m_documents, vector_store, disk, search, out>>

\* vector_store = embedding.create_vector_store(chunks)
Embed ==
  /\ pc = "embed"
  /\ \E answer \in EmbedAnswers :
       LET o == create_vector_store(m_chunks, answer)
           after == main_after("embed", o)
       IN /\ vector_store' = o.ret
          /\ pc' = after.pc
          /\ exc' = after.exc
          /\ trace' = Append(trace, Called("embed", m_chunks, o.ret, answer # "ok"))
          /\ out' = out \o o.printed
  /\ UNCHANGED <<chunker, rag, raw, m_documents, m_chunks, disk, search>>

\* embedding.save_vector_store(vector_store)
Save ==
  /\ pc = "save"
  /\ \E answer \in CallAnswers :
       LET o == save_vector_store(vector_store, answer)
           after == main_after("save", o)
       IN /\ IF answer = "ok" THEN disk' = vector_store ELSE disk' \in {disk, "corrupt"}
          /\ pc' = after.pc
          /\ exc' = after.exc
          /\ trace' = Append(trace, Called("save", vector_store, None, answer # "ok"))
          /\ out' = out \o o.printed
  /\ UNCHANGED <<chunker, rag, raw, m_documents, m_chunks, vector_store, search>>

\* embedding.verify_indexing(vector_store)
Verify ==
  /\ pc = "verify"
  /\ \E answer \in CallAnswers :
       LET o == verify_indexing(vector_store, answer)
           after == main_after("verify", o)
       IN /\ IF answer = "ok"
             THEN \E hits \in TopK(Len(vector_store.docs), verify_k) :
                    search' = similarity_search(vector_store, hits)
             ELSE search' = search
          /\ pc' = after.pc
          /\ exc' = after.exc
          /\ trace' = Append(trace, Called("verify", vector_store, None, answer # "ok"))
          /\ out' = out \o o.printed
  /\ UNCHANGED <<chunker, rag, raw, m_documents, m_chunks, vector_store, disk>>

\* the summary main() prints last
Summary ==
  /\ pc = "summary"
  /\ pc' = "done"
  /\ out' = Append(out, "INDEXING COMPLETE")
  /\ UNCHANGED <<chunker, rag, raw, m_documents, m_chunks, vector_store, disk, search, exc, trace>>

Next == Load \/ Chunk_ \/ Embed \/ Save \/ Verify \/ Summary

Spec == Init /\ [][Next]_vars

\* ------------------------------------------------------------- the drivers
\* entries of calls
Saved(dir, failed) == [op |-> "save", dir |-> dir, failed |-> failed]
Loaded(dir, broken, o) ==
  [op |-> "load", dir |-> dir, broken |-> broken, ret |-> o.ret, exc |-> o.exc,
   printed |-> o.printed]
Built == [op |-> "chain"]
Prompted(what) == [op |-> "prompt", what |-> what]
Searched(query, k, docs, failed) ==
  [op |-> "search", query |-> query, k |-> k, docs |-> docs, failed |-> failed]
Generated(question, context, failed) ==
  [op |-> "generate", question |-> question, context |-> context, failed |-> failed]
Shown(answer, sources) == [op |-> "show", answer |-> answer, sources |-> sources]
Gave(fn, value) == [op |-> "return", fn |-> fn, value |-> value]

\* the load of the folder fails: the path is absent or load_local raises
broken(files, dir, answer) == files[dir].state # "index" \/ answer = "fails"

\* what a step of a driver does: the calls it makes and the exception, if
\* any, that leaves it
Step(events, e) == [events |-> events, exc |-> e]

\* one call retrieve_and_display(vector_store, query, k=k) of test.py
call_retrieve_and_display(sim, store, query, k, answer) ==
  CASE store = Nothing -> Step(<<>>, "AttributeError")
    [] store # Nothing /\ answer = "fails" ->
         Step(<<Searched(query, k, <<>>, TRUE)>>, "SearchError")
    [] OTHER ->
         Step(<<Searched(query, k, faiss_search(sim, store[1], query, k), FALSE),
                Gave("retrieve_and_display", retrieve_and_display(sim, store[1], query, k))>>,
              None)

\* main() of test.py after load_vector_store() without the None check
test_main_after_unchecked(o) ==
  IF o.exc # None THEN "raised" ELSE "t1:menu"

\* main() of test.py after vector_store = load_vector_store(): returns when
\* it is None
test_main_after(o) ==
  IF o.exc # None THEN "raised"
  ELSE IF o.ret = Nothing THEN "done" ELSE "t1:menu"

\* k of vector_store.as_retriever(search_kwargs={"k": 3})
retriever_k == 3

Retriever(vs) == [vs |-> vs, k |-> retriever_k]
LLM == [model |-> "gemini-2.5-flash-lite"]

\* load_rag_components that hands back the LLM when the path is absent
load_rag_components_mixed(files, cwd, emb, answer, llm) ==
  LET folder == files[resolve(cwd, "../vector_store")]
  IN CASE emb = "fails" -> Outcome(<<Nothing, Nothing, Nothing>>, "EmbeddingsError", <<>>)
       [] emb # "fails" /\ folder.state = "absent" ->
            Outcome(<<Nothing, Some(LLM), Nothing>>, None, <<"Vector store not found">>)
       [] emb # "fails" /\ folder.state # "absent"
            /\ (answer = "fails" \/ folder.state = "corrupt") ->
            Outcome(<<Nothing, Nothing, Nothing>>, None, <<"Error loading vector store">>)
       [] emb # "fails" /\ folder.state = "index" /\ answer # "fails" /\ llm = "fails" ->
            Outcome(<<Nothing, Nothing, Nothing>>, "LLMError",
                    <<"Vector store loaded successfully", "Retriever created">>)
       [] OTHER ->
            Outcome(<<Some(Retriever(folder.index)), Some(LLM), Some(folder.index)>>, None,
                    <<"Vector store loaded successfully", "Retriever created",
                      "LLM initialized">>)

\* load_rag_components() of test-2.py: (retriever, llm, vector_store), or
\* (None, None, None) when the path is absent or FAISS.load_local raises
load_rag_components(files, cwd, emb, answer, llm) ==
  LET folder == files[resolve(cwd, "../vector_store")]
  IN CASE emb = "fails" -> Outcome(<<Nothing, Nothing, Nothing>>, "EmbeddingsError", <<>>)
       [] emb # "fails" /\ folder.state = "absent" ->
            Outcome(<<Nothing, Nothing, Nothing>>, None, <<"Vector store not found">>)
       [] emb # "fails" /\ folder.state # "absent"
            /\ (answer = "fails" \/ folder.state = "corrupt") ->
            Outcome(<<Nothing, Nothing, Nothing>>, None, <<"Error loading vector store">>)
       [] emb # "fails" /\ folder.state = "index" /\ answer # "fails" /\ llm = "fails" ->
            Outcome(<<Nothing, Nothing, Nothing>>, "LLMError",
                    <<"Vector store loaded successfully", "Retriever created">>)
       [] OTHER ->
            Outcome(<<Some(Retriever(folder.index)), Some(LLM), Some(folder.index)>>, None,
                    <<"Vector store loaded successfully", "Retriever created",
                      "LLM initialized">>)

\* main() of test-2.py after load_rag_components(): returns when retriever
\* is None
rag_main_after(o) ==
  IF o.exc # None THEN "raised"
  ELSE IF o.ret[1] = Nothing THEN "done" ELSE "t2:chain"

\* create_rag_chain(retriever, llm): the retriever piped into the prompt
\* and the LLM
create_rag_chain(retriever, llm) == [retriever |-> retriever, llm |-> llm]

\* the text the LLM generates from the prompt filled with context and input
Answer(question, context) == [input |-> question, context |-> context]

\* answer_question that asks the LLM before it retrieves
answer_question_generate_first(sim, chain, question, ranswer, ganswer) ==
  LET docs == faiss_search(sim, chain.retriever.vs, question, chain.retriever.k)
      answer == Answer(question, <<>>)
  IN Step(<<Generated(question, <<>>, FALSE),
            Searched(question, chain.retriever.k, docs, FALSE),
            Shown(answer, docs),
            Gave("answer_question", Nothing)>>, None)

\* answer_question(rag_chain, question): rag_chain.invoke retrieves, then
\* generates; the answer and the sources are printed; nothing is returned
answer_question(sim, chain, question, ranswer, ganswer) ==
  LET docs == faiss_search(sim, chain.retriever.vs, question, chain.retriever.k)
      answer == Answer(question, docs)
  IN CASE ranswer = "fails" ->
            Step(<<Searched(question, chain.retriever.k, <<>>, TRUE)>>, "SearchError")
       [] ranswer # "fails" /\ ganswer = "fails" ->
            Step(<<Searched(question, chain.retriever.k, docs, FALSE),
                   Generated(question, docs, TRUE)>>, "LLMError")
       [] OTHER ->
            Step(<<Searched(question, chain.retriever.k, docs, FALSE),
                   Generated(question, docs, FALSE),
                   Shown(answer, docs),
                   Gave("answer_question", Nothing)>>, None)

\* demo_questions of run_demo
demo_questions ==
  <<Literal("What is RAG and why is it useful?"), Literal("How do embeddings work?"),
    Literal("What's the difference between chains and agents?"),
    Literal("Explain the indexing phase of RAG")>>

\* the questions of run_analysis, in call order
test_cases ==
  <<Literal("What is a chain?"), Literal("Define embeddings"),
    Literal("How do I build a RAG application?"), Literal("How do retrievers work?"),
    Literal("Explain how RAG, agents, and tools work together"),
    Literal("What are the steps to build a production RAG system?"),
    Literal("How do I cook pasta?"), Literal("What's the capital of France?")>>

Scripts == {"test.py", "test-2.py"}

InitRag ==
  /\ given = <<>>
  /\ documents = <<>>
  /\ results = <<>>
  /\ raw = <<>>
  /\ pc = "index"
  /\ m_documents = None
  /\ m_chunks = None
  /\ vector_store = FAISS(Corpus)
  /\ disk = None
  /\ search = None
  /\ exc = None
  /\ trace = <<>>
  /\ out = <<>>
  /\ world \in Worlds
  /\ fs \in {[d \in AllDirs |-> Absent], [d \in AllDirs |-> Folder("index", StaleIndex)]}
  /\ run \in [script : Scripts, cwd : Dirs, main_cwd : Dirs]
  /\ comps = NoComps
  /\ todo = <<>>
  /\ typed = <<>>
  /\ calls = <<>>

idle == <<given, documents, results, raw, m_documents, m_chunks, vector_store, disk, search,
          trace, world, run>>

\* main() of project-1 saves its index: embedding.save_vector_store(vector_store)
SaveIndex ==
  /\ pc = "index"
  /\ \E answer \in CallAnswers :
       LET o == save_vector_store(vector_store, answer)
       IN /\ fs' \in save_local(fs, run.main_cwd, save_path, vector_store, answer)
          /\ calls' = Append(calls, Saved(resolve(run.main_cwd, save_path), answer # "ok"))
          /\ out' = out \o o.printed
  /\ pc' = "start"
  /\ UNCHANGED <<idle, exc, comps, todo, typed>>

\* the driver is run with no indexing run before it
SkipIndex ==
  /\ pc = "index"
  /\ pc' = "start"
  /\ UNCHANGED <<idle, exc, out, fs, comps, todo, typed, calls>>

\* test.py main(): vector_store = load_vector_store()
T1Load ==
  /\ pc = "start"
  /\ run.script = "test.py"
  /\ \E emb \in CallAnswers, answer \in CallAnswers :
       LET o == load_vector_store(fs, run.cwd, emb, answer)
           dir == resolve(run.cwd, "./vector_store")
       IN /\ calls' = Append(calls, Loaded(dir, broken(fs, dir, answer), o))
          /\ comps' = [comps EXCEPT !.vector_store = o.ret]
          /\ pc' = test_main_after(o)
          /\ exc' = o.exc
          /\ out' = out \o o.printed
  /\ UNCHANGED <<idle, fs, todo, typed>>

\* test.py main(): choice = input(...).strip() and the branch on it
T1Menu ==
  /\ pc = "t1:menu"
  /\ calls' = Append(calls, Prompted("menu"))
  /\ \E line \in Choices \cup {EOF} :
       LET choice == strip(line)
       IN CASE line = EOF -> pc' = "raised" /\ exc' = "EOFError" /\ todo' = todo /\ out' = out
            [] line # EOF /\ choice = <<"1">> ->
                 pc' = "t1:tests" /\ exc' = exc /\ todo' = type_tests /\ out' = out
            [] line # EOF /\ choice = <<"2">> ->
                 pc' = "t1:loop" /\ exc' = exc /\ todo' = todo /\ out' = out
            [] line # EOF /\ choice = <<"3">> ->
                 pc' = "done" /\ exc' = exc /\ todo' = todo /\ out' = out
            [] OTHER ->
                 pc' = "done" /\ exc' = exc /\ todo' = todo
                 /\ out' = Append(out, "Invalid choice")
  /\ UNCHANGED <<idle, fs, comps, typed>>

\* run_query_type_tests: the next retrieve_and_display(vector_store, query, k=2)
T1Test ==
  /\ pc = "t1:tests"
  /\ \E answer \in CallAnswers :
       LET step == call_retrieve_and_display(world, comps.vector_store, Head(todo), tests_k,
                                             answer)
       IN /\ calls' = calls \o step.events
          /\ exc' = step.exc
          /\ todo' = Tail(todo)
          /\ pc' = IF step.exc # None THEN "raised"
                   ELSE IF Tail(todo) = <<>> THEN "done" ELSE pc
  /\ UNCHANGED <<idle, fs, comps, typed, out>>

\* interactive_mode: one turn of the loop
T1Loop ==
  /\ pc = "t1:loop"
  /\ Len(typed) < MaxLines
  /\ \E line \in Lines \cup {EOF}, answer \in CallAnswers :
       LET query == strip(line)
           step == call_retrieve_and_display(world, comps.vector_store, query, interactive_k,
                                             answer)
       IN CASE line = EOF ->
                 /\ calls' = Append(calls, Prompted("loop"))
                 /\ typed' = typed /\ out' = out
                 /\ pc' = "raised" /\ exc' = "EOFError"
            [] line # EOF /\ lower(query) = quit ->
                 /\ calls' = Append(calls, Prompted("loop"))
                 /\ typed' = Append(typed, line) /\ out' = out
                 /\ pc' = "done" /\ exc' = exc
            [] line # EOF /\ query = <<>> ->
                 /\ calls' = Append(calls, Prompted("loop"))
                 /\ typed' = Append(typed, line)
                 /\ out' = Append(out, "Please enter a query.")
                 /\ pc' = pc /\ exc' = exc
            [] OTHER ->
                 /\ calls' = Append(calls, Prompted("loop")) \o step.events
                 /\ typed' = Append(typed, line) /\ out' = out
                 /\ pc' = IF step.exc # None THEN "raised" ELSE pc
                 /\ exc' = step.exc
  /\ UNCHANGED <<idle, fs, comps, todo>>

\* test-2.py main(): retriever, llm, vector_store = load_rag_components()
T2Load ==
  /\ pc = "start"
  /\ run.script = "test-2.py"
  /\ \E emb \in CallAnswers, answer \in CallAnswers, llm \in CallAnswers :
       LET o == load_rag_components(fs, run.cwd, emb, answer, llm)
           dir == resolve(run.cwd, "../vector_store")
       IN /\ calls' = Append(calls, Loaded(dir, broken(fs, dir, answer), o))
          /\ comps' = IF o.exc # None THEN comps
                      ELSE [comps EXCEPT !.retriever = o.ret[1], !.llm = o.ret[2],
                                         !.vector_store = o.ret[3]]
          /\ pc' = rag_main_after(o)
          /\ exc' = o.exc
          /\ out' = out \o o.printed
  /\ UNCHANGED <<idle, fs, todo, typed>>

\* test-2.py main(): rag_chain = create_rag_chain(retriever, llm)
T2Chain ==
  /\ pc = "t2:chain"
  /\ comps' = [comps EXCEPT
                 !.rag_chain = Some(create_rag_chain(comps.retriever[1], comps.llm[1]))]
  /\ calls' = Append(calls, Built)
  /\ out' = Append(out, "RAG chain created")
  /\ pc' = "t2:menu"
  /\ exc' = exc
  /\ UNCHANGED <<idle, fs, todo, typed>>

\* test-2.py main(): choice = input(...).strip() and the branch on it
T2Menu ==
  /\ pc = "t2:menu"
  /\ calls' = Append(calls, Prompted("menu"))
  /\ \E line \in Choices \cup {EOF} :
       LET choice == strip(line)
       IN CASE line = EOF -> pc' = "raised" /\ exc' = "EOFError" /\ todo' = todo /\ out' = out
            [] line # EOF /\ choice = <<"1">> ->
                 pc' = "t2:demo" /\ exc' = exc /\ todo' = demo_questions /\ out' = out
            [] line # EOF /\ choice = <<"2">> ->
                 pc' = "t2:loop" /\ exc' = exc /\ todo' = todo /\ out' = out
            [] line # EOF /\ choice = <<"3">> ->
                 pc' = "t2:analysis" /\ exc' = exc /\ todo' = test_cases /\ out' = out
            [] line # EOF /\ choice = <<"4">> ->
                 pc' = "done" /\ exc' = exc /\ todo' = todo /\ out' = out
            [] OTHER ->
                 pc' = "done" /\ exc' = exc /\ todo' = todo
                 /\ out' = Append(out, "Invalid choice")
  /\ UNCHANGED <<idle, fs, comps, typed>>

\* run_demo: the next answer_question(rag_chain, question), then
\* input("Press Enter...") unless it was the last
T2Demo ==
  /\ pc = "t2:demo"
  /\ \E ranswer \in CallAnswers, ganswer \in CallAnswers, line \in {<<>>, EOF} :
       LET step == answer_question(world, comps.rag_chain[1], Head(todo), ranswer, ganswer)
           last == Tail(todo) = <<>>
       IN /\ todo' = Tail(todo)
          /\ IF step.exc # None
             THEN calls' = calls \o step.events /\ pc' = "raised" /\ exc' = step.exc
             ELSE IF last
             THEN calls' = calls \o step.events /\ pc' = "done" /\ exc' = exc
             ELSE /\ calls' = (calls \o step.events) \o <<Prompted("enter")>>
                  /\ pc' = IF line = EOF THEN "raised" ELSE pc
                  /\ exc' = IF line = EOF THEN "EOFError" ELSE exc
  /\ UNCHANGED <<idle, fs, comps, typed, out>>

\* run_analysis: the next answer_question(rag_chain, question)
T2Analysis ==
  /\ pc = "t2:analysis"
  /\ \E ranswer \in CallAnswers, ganswer \in CallAnswers :
       LET step == answer_question(world, comps.rag_chain[1], Head(todo), ranswer, ganswer)
       IN /\ calls' = calls \o step.events
          /\ exc' = step.exc
          /\ todo' = Tail(todo)
          /\ pc' = IF step.exc # None THEN "raised"
                   ELSE IF Tail(todo) = <<>> THEN "done" ELSE pc
  /\ UNCHANGED <<idle, fs, comps, typed, out>>

\* run_interactive: one turn of the loop
T2Loop ==
  /\ pc = "t2:loop"
  /\ Len(typed) < MaxLines
  /\ \E line \in Lines \cup {EOF}, ranswer \in CallAnswers, ganswer \in CallAnswers :
       LET question == strip(line)
           step == answer_question(world, comps.rag_chain[1], question, ranswer, ganswer)
       IN CASE line = EOF ->
                 /\ calls' = Append(calls, Prompted("loop"))
                 /\ typed' = typed /\ out' = out
                 /\ pc' = "raised" /\ exc' = "EOFError"
            [] line # EOF /\ lower(question) = quit ->
                 /\ calls' = Append(calls, Prompted("loop"))
                 /\ typed' = Append(typed, line)
                 /\ out' = Append(out, "Exiting...")
                 /\ pc' = "done" /\ exc' = exc
            [] line # EOF /\ question = <<>> ->
                 /\ calls' = Append(calls, Prompted("loop"))
                 /\ typed' = Append(typed, line)
                 /\ out' = Append(out, "Please enter a question.")
                 /\ pc' = pc /\ exc' = exc
            [] OTHER ->
                 /\ calls' = Append(calls, Prompted("loop")) \o step.events
                 /\ typed' = Append(typed, line) /\ out' = out
                 /\ pc' = IF step.exc # None THEN "raised" ELSE pc
                 /\ exc' = step.exc
  /\ UNCHANGED <<idle, fs, comps, todo>>

NextRag ==
  \/ SaveIndex \/ SkipIndex
  \/ T1Load \/ T1Menu \/ T1Test \/ T1Loop
  \/ T2Load \/ T2Chain \/ T2Menu \/ T2Demo \/ T2Analysis \/ T2Loop

SpecRag == InitRag /\ [][NextRag]_vars

\* ------------------------------------------------------------- chunker claims
Calls == 1..Len(results)
Returns == {k \in Calls : results[k].exc = None}

\* the chunks a returned call cut from document i, in output order
ChunksOfDoc(k, i) == SelectSeq(results[k].ret, LAMBDA c : c.doc = i)

\* the separator occurs in text
occurs(sep, text) == Len(re_split(text, sep, <<>>)) > 1

\* C1: every document whose content is shorter than chunk_size yields, in
\* every call, exactly one chunk, and its text is the trimmed content.
C1_ShortDocumentOneChunk ==
  \A k \in Calls : \A i \in 1..Len(given) :
    len(given[i].page_content) < chunk_size
      => /\ results[k].exc = None
         /\ Len(ChunksOfDoc(k, i)) = 1
         /\ ChunksOfDoc(k, i)[1].page_content = strip(given[i].page_content)

\* a chunk no longer than chunk_size
WithinSize(c) == len(c.page_content) <= chunk_size

\* a chunk made of one split that alone is longer than chunk_size
OneOversizeSplit(c) == Len(c.segs) = 1 /\ len(c.segs[1]) > chunk_size

\* C2 as stated: every chunk is at most chunk_size long, or is one split that
\* alone exceeds chunk_size and is emitted unmodified.
C2_SizeBoundUnmodified ==
  \A k \in Returns : \A n \in 1..Len(results[k].ret) :
    LET c == results[k].ret[n]
    IN WithinSize(c) \/ (OneOversizeSplit(c) /\ c.page_content = c.segs[1])

\* C2 amended: every chunk is at most chunk_size long, or is one split that
\* alone exceeds chunk_size, emitted whole but for the whitespace trimmed from
\* its two ends; no chunk of two or more splits, the kept overlap included,
\* exceeds chunk_size.
C2_SizeBoundTrimmed ==
  \A k \in Returns : \A n \in 1..Len(results[k].ret) :
    LET c == results[k].ret[n]
    IN WithinSize(c) \/ (OneOversizeSplit(c) /\ c.page_content = strip(c.segs[1]))

\* C2 witness: a returned chunk longer than chunk_size, cut from one split
\* that had whitespace at an end.
C2_Witness ==
  \E k \in Returns : \E n \in 1..Len(results[k].ret) :
    LET c == results[k].ret[n]
    IN ~WithinSize(c) /\ OneOversizeSplit(c) /\ c.page_content # c.segs[1]

\* C3: of two chunks emitted one after the other from one document, both made
\* of several splits, the last chunk_overlap characters of the first are a
\* prefix of the second.
C3_OverlapSuffixIsPrefix ==
  \A k \in Returns : \A n \in 1..(Len(results[k].ret) - 1) :
    LET c1 == results[k].ret[n]
        c2 == results[k].ret[n + 1]
        tail == last_chars(c1.page_content, chunk_overlap)
    IN (chunk_overlap > 0 /\ c1.doc = c2.doc /\ Len(c1.segs) >= 2 /\ Len(c2.segs) >= 2)
         => startswith(c2.page_content, tail) \/ startswith(join(separator, c2.segs), tail)

\* C4: every chunk carries the metadata of the document it was cut from, and
\* the call leaves the documents' metadata as they were.
C4_MetadataInherited ==
  /\ \A k \in Returns : \A n \in 1..Len(results[k].ret) :
       LET c == results[k].ret[n]
       IN c.doc \in 1..Len(given) /\ c.metadata = given[c.doc].metadata
  /\ Len(documents) = Len(given)
  /\ \A i \in 1..Len(given) : documents[i].metadata = given[i].metadata

\* C4 witness: a call returned chunks of two documents with different metadata.
C4_Witness ==
  \E k \in Returns : \E n, m \in 1..Len(results[k].ret) :
    /\ results[k].ret[n].doc # results[k].ret[m].doc
    /\ results[k].ret[n].metadata # results[k].ret[m].metadata

\* chunks in source-document order and, within a document, in text order
InOrder(chunks) ==
  \A n \in 1..(Len(chunks) - 1) :
    \/ chunks[n].doc < chunks[n + 1].doc
    \/ chunks[n].doc = chunks[n + 1].doc /\ chunks[n].at < chunks[n + 1].at

\* the ordering half of C5 alone
ChunksInOrder == \A k \in Returns : InOrder(results[k].ret)

\* C5: a returned chunk list is in source-document order, then in text order
\* within a document, and is non-empty when the document list is non-empty.
C5_OrderedAndNonEmpty ==
  \A k \in Returns :
    /\ InOrder(results[k].ret)
    /\ given # <<>> => results[k].ret # <<>>

C8_NoSeparatorWholeContent ==
  \A k \in Calls : \A i \in 1..Len(given) :
    ~occurs(separator, given[i].page_content)
      => /\ results[k].exc = None
         /\ Len(ChunksOfDoc(k, i)) = 1
         /\ ChunksOfDoc(k, i)[1].page_content = given[i].page_content

\* ------------------------------------------------------------- pipeline claims
Printed(line) == \E n \in 1..Len(out) : out[n] = line

\* C9: the stages are called in the order load, chunk, embed, save, verify,
\* each at most once and only after the one before it returned; chunk is
\* passed what load returned, embed what chunk returned, save and verify
\* what embed returned.
C9_StagesInOrder ==
  /\ Len(trace) <= Len(Stages)
  /\ \A n \in 1..Len(trace) :
       /\ trace[n].stage = Stages[n]
       /\ n < Len(trace) => ~trace[n].failed
       /\ n \in {2, 3, 4} => trace[n].arg = trace[n - 1].ret
       /\ n = 5 => trace[n].arg = trace[3].ret

\* C9 witness: a run that went through all five stages and printed the summary.
C9_Witness == pc = "done" /\ Len(trace) = Len(Stages) /\ Len(m_chunks) >= 2

\* C10: once the work of a stage fails, no later stage is called, the stage
\* is not called again, the exception leaves main, the summary is not
\* printed, a failure of FAISS.from_documents is printed; a failure up to
\* embed leaves nothing saved, a failure up to save leaves nothing searched.
C10_FailFast ==
  \A n \in 1..Len(trace) :
    trace[n].failed
      => /\ n = Len(trace)
         /\ \A m \in 1..Len(trace) : m # n => trace[m].stage # trace[n].stage
         /\ pc = "raised"
         /\ exc # None
         /\ ~Printed("INDEXING COMPLETE")
         /\ exc = "IndexBuildError" => Printed("Error creating vector store")
         /\ trace[n].stage \in {"load", "chunk", "embed"} => disk \in {None, "stale"}
         /\ trace[n].stage \in {"load", "chunk", "embed", "save"} => search = None

\* C10 witness: FAISS.from_documents failed in create_vector_store.
C10_Witness ==
  /\ pc = "raised"
  /\ exc = "IndexBuildError"
  /\ trace[Len(trace)].stage = "embed"

\* C15: load_documents leaves the raw documents as they are and, for a
\* non-empty raw list, returns one Document per raw document, in the same
\* order, with the content stripped and the metadata title, category and
\* section of the raw document and nothing else.
C15_LoadDocuments ==
  [][pc = "load" =>
       /\ raw' = raw
       /\ raw # <<>> =>
            /\ pc' = "chunk"
            /\ Len(m_documents') = Len(raw)
            /\ \A i \in 1..Len(raw) :
                 /\ m_documents'[i].page_content = strip(raw[i].content)
                 /\ DOMAIN m_documents'[i].metadata = {"title", "category", "section"}
                 /\ m_documents'[i].metadata.title = raw[i].title
                 /\ m_documents'[i].metadata.category = raw[i].category
                 /\ m_documents'[i].metadata.section = raw[i].section]_vars

\* C15 witness: load_documents returned two documents and strip() changed one.
C15_Witness ==
  /\ Len(trace) >= 1
  /\ ~trace[1].failed
  /\ Len(raw) >= 2
  /\ \E i \in 1..Len(raw) : m_documents[i].page_content # raw[i].content

\* the other chunk_documents
OtherVariant(variant) == IF variant = "project-1" THEN "simple-rag-agent" ELSE "project-1"

\* C16: on every document list each chunk_documents returns, and returns the
\* chunk list the other one gives on the same list.
C16_VariantsAgree ==
  \A k \in Calls :
    LET other == call_chunk_documents(OtherVariant(results[k].variant), given)
    IN /\ results[k].exc = None
       /\ other.exc = None
       /\ results[k].ret = other.ret
\* ------------------------------------------------------------- driver claims
Events == 1..Len(calls)
Of(op) == SelectSeq(calls, LAMBDA e : e.op = op)

\* the result of a load that gave no index: None, or (None, None, None)
NoIndex == {Nothing, <<Nothing, Nothing, Nothing>>}

\* C11: when loading the persisted index fails (path absent, or the load
\* call raising), the failure either leaves the run as an exception or is
\* handed to main as None, which no successful load gives; after it the
\* driver has issued no index query, built no chain, called no generation
\* service and prompted for nothing, and the run is over.
C11_LoadFailureStops ==
  \A n \in Events :
    (calls[n].op = "load" /\ calls[n].broken)
      => /\ calls[n].exc # None \/ calls[n].ret \in NoIndex
         /\ calls[n].exc # None => pc = "raised" /\ exc = calls[n].exc
         /\ calls[n].exc = None => pc = "done" /\ exc = None
         /\ \A m \in Events : calls[m].op \notin {"search", "chain", "generate", "prompt"}

\* C11 witness: test.py found the folder, load_local raised, and main
\* returned.
C11_Witness ==
  /\ run.script = "test.py"
  /\ pc = "done"
  /\ \E n \in Events :
       /\ calls[n].op = "load"
       /\ calls[n].broken
       /\ fs[calls[n].dir].state = "index"

\* scores of a result list never rise
Descending(docs) ==
  \A i \in 1..Len(docs) : \A j \in i..Len(docs) : score(world, docs[i]) >= score(world, docs[j])

\* C12: every answer of the index has at most k results, in descending
\* similarity, and every retrieve_and_display returns the very sequence the
\* index answered its search with.
C12_ReturnsIndexAnswer ==
  \A n \in Events :
    /\ (calls[n].op = "search" /\ ~calls[n].failed)
         => Len(calls[n].docs) <= calls[n].k /\ Descending(calls[n].docs)
    /\ (calls[n].op = "return" /\ calls[n].fn = "retrieve_and_display")
         => /\ n > 1
            /\ calls[n - 1].op = "search"
            /\ ~calls[n - 1].failed
            /\ calls[n].value = calls[n - 1].docs

\* C12 witness: retrieve_and_display returned three results, the first two
\* equal chunks, the third less similar.
C12_Witness ==
  \E n \in Events :
    /\ calls[n].op = "return"
    /\ calls[n].fn = "retrieve_and_display"
    /\ Len(calls[n].value) = 3
    /\ calls[n].value[1] = calls[n].value[2]
    /\ score(world, calls[n].value[2]) > score(world, calls[n].value[3])

\* the run saved the index and then loaded the folder it was saved to
SavedThenLoaded ==
  \E s \in Events : \E l \in Events :
    /\ calls[s].op = "save"
    /\ ~calls[s].failed
    /\ calls[l].op = "load"
    /\ calls[l].dir = calls[s].dir
    /\ calls[l].exc = None
    /\ ~calls[l].broken

RetrievalThenOneGeneration ==
  \A n \in Events :
    /\ calls[n].op = "generate"
         => /\ n > 1
            /\ calls[n - 1].op = "search"
            /\ ~calls[n - 1].failed
            /\ calls[n - 1].k = retriever_k
            /\ Len(calls[n - 1].docs) <= retriever_k
            /\ calls[n - 1].query = calls[n].question
            /\ calls[n].context = calls[n - 1].docs
    /\ (run.script = "test-2.py" /\ calls[n].op = "search" /\ ~calls[n].failed /\ n < Len(calls))
         => calls[n + 1].op = "generate"

\* the answer and the sources of every successful generation are shown next,
\* the sources in retrieval order
AnswerAndSourcesShown ==
  \A n \in Events :
    (calls[n].op = "generate" /\ ~calls[n].failed /\ n < Len(calls))
      => /\ calls[n + 1].op = "show"
         /\ calls[n + 1].answer = Answer(calls[n].question, calls[n].context)
         /\ calls[n + 1].sources = calls[n].context

\* C14 as stated: retrieval of at most 3 chunks precedes the one generation
\* call, which is given the retrieved context and the question, and
\* answer_question returns the answer with the sources in retrieval order.
C14_ReturnsAnswerAndSources ==
  /\ RetrievalThenOneGeneration
  /\ \A n \in Events :
       (calls[n].op = "return" /\ calls[n].fn = "answer_question")
         => calls[n].value = Some([answer |-> calls[n - 1].answer,
                                   sources |-> calls[n - 1].sources])

\* C14 amended: retrieval of at most 3 chunks precedes the one generation
\* call, which is given the retrieved context and the question; the answer
\* and the sources, in retrieval order, are printed, and answer_question
\* returns None.
C14_PrintsAnswerAndSources ==
  /\ RetrievalThenOneGeneration
  /\ AnswerAndSourcesShown
  /\ \A n \in Events :
       (calls[n].op = "return" /\ calls[n].fn = "answer_question")
         => /\ n > 1
            /\ calls[n - 1].op = "show"
            /\ calls[n].value = Nothing

\* C14 witness: answer_question returned after an answer made from three
\* retrieved chunks was shown.
C14_Witness ==
  \E n \in Events :
    /\ calls[n].op = "return"
    /\ calls[n].fn = "answer_question"
    /\ Len(calls[n - 1].sources) = 3
    /\ calls[n - 1].answer.context = calls[n - 1].sources

\* 'quit' in every letter case
QuitAnyCase ==
  {<<a, b, c, d>> : a \in {"q", "Q"}, b \in {"u", "U"}, c \in {"i", "I"}, d \in {"t", "T"}}

\* the run is or was in an interactive loop
InLoop == \E n \in Events : calls[n].op = "prompt" /\ calls[n].what = "loop"

\* the lines read so far, trimmed
Trimmed == [i \in 1..Len(typed) |-> strip(typed[i])]

\* the trimmed lines that are neither empty nor 'quit'
Asked == SelectSeq(Trimmed, LAMBDA q : q # <<>> /\ q \notin QuitAnyCase)

\* what the loops do with the lines they read: a line that trims to 'quit'
\* is the last one read and ends the run with nothing after its prompt; a
\* line that trims to nothing leaves the loop at its prompt; the queries
\* made are the other lines, trimmed, one each, with k = 3, in input order,
\* and each generation answers the query just made
LoopTurns ==
  InLoop =>
    /\ \A i \in 1..Len(typed) :
         Trimmed[i] \in QuitAnyCase
           => i = Len(typed) /\ pc = "done" /\ calls[Len(calls)].op = "prompt"
    /\ (typed # <<>> /\ Trimmed[Len(typed)] = <<>> /\ exc = None)
         => pc \in {"t1:loop", "t2:loop"} /\ calls[Len(calls)].op = "prompt"
    /\ Len(Of("search")) = Len(Asked)
    /\ \A i \in 1..Len(Asked) :
         Of("search")[i].query = Asked[i] /\ Of("search")[i].k = 3
    /\ Len(Of("generate")) <= Len(Asked)
    /\ \A i \in 1..Len(Of("generate")) : Of("generate")[i].question = Asked[i]
    /\ RetrievalThenOneGeneration

\* C17 as stated: the loops treat their lines as above, and a loop ends
\* only on 'quit'.
C17_EndsOnlyOnQuit ==
  /\ LoopTurns
  /\ (InLoop /\ pc \in {"done", "raised"})
       => typed # <<>> /\ Trimmed[Len(typed)] \in QuitAnyCase

\* C17 amended: the loops treat their lines as above; a loop returns only on
\* 'quit', and is otherwise left only by an exception: EOFError of input()
\* at the end of the input, or the error raised by the query.
C17_ReturnsOnlyOnQuit ==
  /\ LoopTurns
  /\ (InLoop /\ pc = "done") => typed # <<>> /\ Trimmed[Len(typed)] \in QuitAnyCase
  /\ (InLoop /\ pc = "raised") => exc \in {"EOFError", "SearchError", "LLMError"}

\* C17 witness: a loop read an empty line, then a question, which it
\* answered, then 'quit' in mixed case, and returned.
C17_Witness ==
  /\ InLoop
  /\ pc = "done"
  /\ Len(typed) = 3
  /\ Trimmed[1] = <<>>
  /\ Len(Of("search")) = 1
  /\ Len(Of("generate")) = 1
  /\ Trimmed[3] # quit

\* C18: load_rag_components returns three values that are all None or all
\* not None; when the path is absent or the load raises it returns three
\* None, having created no retriever and no LLM, and main is over with no
\* chain built and no prompt made.
C18_AllOrNothing ==
  \A n \in Events :
    (run.script = "test-2.py" /\ calls[n].op = "load" /\ calls[n].exc = None)
      => /\ \/ \A i \in 1..3 : calls[n].ret[i] = Nothing
            \/ \A i \in 1..3 : calls[n].ret[i] # Nothing
         /\ calls[n].broken
              => /\ calls[n].ret = <<Nothing, Nothing, Nothing>>
                 /\ \A i \in 1..Len(calls[n].printed) :
                      calls[n].printed[i] \notin {"Retriever created", "LLM initialized"}
                 /\ pc = "done"
                 /\ \A m \in Events : calls[m].op \notin {"chain", "prompt"}

\* C18 witness: test-2.py found no folder and main returned.
C18_Witness ==
  /\ run.script = "test-2.py"
  /\ pc = "done"
  /\ \E n \in Events :
       /\ calls[n].op = "load"
       /\ calls[n].broken
       /\ fs[calls[n].dir].state = "absent"
       /\ calls[n].ret = <<Nothing, Nothing, Nothing>>

====
